---- MODULE Spec2Model ----
(***************************************************************************)
(* BH Smart Sym (src/__init__.py): the modal "Smart Symmetrize" operator,  *)
(* its arrow geometry and its hit test, and the add-on's hotkey management *)
(* (register/unregister, the capture and reset operators), as state        *)
(* machines: Spec, SpecArrow and SpecHotkey.                               *)
(*                                                                         *)
(* Floats are fixed-point integers.  World coordinates, unit vectors and   *)
(* colour channels are in 1/SCALE units; screen coordinates are in 1/PX    *)
(* pixels.  Every product is divided back with round-to-nearest.           *)
(***************************************************************************)
EXTENDS Integers, Sequences, FiniteSets, TLC

\* ------------------------------------------------------------------------
\* Bounds of the model
\* ------------------------------------------------------------------------

\* Number of operator invocations (sessions) explored.
MaxSessions == 2

\* ------------------------------------------------------------------------
\* Fixed-point arithmetic standing for Python floats / mathutils.Vector
\* ------------------------------------------------------------------------

\* One world unit (1.0) in fixed point.
SCALE == 1000

\* One pixel (1.0 px) in fixed point.
PX == 10

\* Python None (for _timer, _handle, _hover); ids and indices are >= 0.
None == -1

Abs(a) == IF a < 0 THEN -a ELSE a

\* a / b rounded to nearest (b > 0), symmetric about 0.
RDiv(a, b) == IF a >= 0 THEN (2 * a + b) \div (2 * b)
                        ELSE -((2 * (-a) + b) \div (2 * b))

\* Fixed-point product of two 1/SCALE numbers.
Mul(a, b) == RDiv(a * b, SCALE)

RECURSIVE SqrtSearch(_, _, _)
SqrtSearch(n, lo, hi) ==
    IF lo >= hi THEN lo
    ELSE LET mid == (lo + hi + 1) \div 2
         IN  IF mid * mid <= n THEN SqrtSearch(n, mid, hi)
                               ELSE SqrtSearch(n, lo, mid - 1)

\* sqrt(n) rounded to nearest, n >= 0.
Sqrt(n) == LET r == SqrtSearch(n, 0, 46340)
           IN  IF n - r * r > r THEN r + 1 ELSE r

Vector(x, y, z) == <<x, y, z>>

VAdd(a, b) == <<a[1] + b[1], a[2] + b[2], a[3] + b[3]>>

VSub(a, b) == <<a[1] - b[1], a[2] - b[2], a[3] - b[3]>>

\* Vector * float.
VScale(a, s) == <<Mul(a[1], s), Mul(a[2], s), Mul(a[3], s)>>

\* Vector.dot
Dot(a, b) == RDiv(a[1] * b[1] + a[2] * b[2] + a[3] * b[3], SCALE)

\* Vector.cross
Cross(a, b) == <<RDiv(a[2] * b[3] - a[3] * b[2], SCALE),
                 RDiv(a[3] * b[1] - a[1] * b[3], SCALE),
                 RDiv(a[1] * b[2] - a[2] * b[1], SCALE)>>

\* Vector.length
VLength(a) == Sqrt(a[1] * a[1] + a[2] * a[2] + a[3] * a[3])

\* Vector.normalized(): the zero vector stays the zero vector.
Normalized(a) ==
    LET len == VLength(a)
    IN  IF len = 0 THEN <<0, 0, 0>>
        ELSE <<RDiv(a[1] * SCALE, len), RDiv(a[2] * SCALE, len),
               RDiv(a[3] * SCALE, len)>>

\* Matrix (3 rows) @ Vector.
MatVec(m, v) == <<Dot(m[1], v), Dot(m[2], v), Dot(m[3], v)>>

\* ------------------------------------------------------------------------
\* Geometry: make_solid_arrow
\* ------------------------------------------------------------------------

\* shaft_mid lies at length * 0.75.
ShaftFraction == 750

\* head_w = length * 0.12.
HeadFraction == 120

\* side.length < 1e-6, in units of 1e-6.
SideEpsMicro == 1

\* Variant: the head strokes are drawn without returning to the tip between
\* them.
make_solid_arrow_openWings(base, direction, length) ==
    LET dir_n     == Normalized(direction)
        tip       == VAdd(base, VScale(dir_n, length))
        shaft_mid == VAdd(base, VScale(dir_n, Mul(length, ShaftFraction)))
        side0     == Cross(dir_n, Vector(0, SCALE, 0))
        side      == Normalized(IF VLength(side0) * SCALE < SideEpsMicro
                                THEN Vector(SCALE, 0, 0) ELSE side0)
        side2     == Normalized(Cross(dir_n, side))
        head_w    == Mul(length, HeadFraction)
    IN  [points |-> << base,
                       shaft_mid,
                       tip,
                       VAdd(shaft_mid, VScale(side, head_w)),
                       VSub(shaft_mid, VScale(side, head_w)),
                       tip,
                       VAdd(shaft_mid, VScale(side2, head_w)),
                       VSub(shaft_mid, VScale(side2, head_w)),
                       tip,
                       tip >>,
         tip    |-> tip]

make_solid_arrow(base, direction, length) ==
    LET dir_n     == Normalized(direction)
        tip       == VAdd(base, VScale(dir_n, length))
        shaft_mid == VAdd(base, VScale(dir_n, Mul(length, ShaftFraction)))
        side0     == Cross(dir_n, Vector(0, SCALE, 0))
        side      == Normalized(IF VLength(side0) * SCALE < SideEpsMicro
                                THEN Vector(SCALE, 0, 0) ELSE side0)
        side2     == Normalized(Cross(dir_n, side))
        head_w    == Mul(length, HeadFraction)
    IN  [points |-> << base,
                       shaft_mid,
                       tip,
                       VAdd(shaft_mid, VScale(side, head_w)),
                       tip,
                       VSub(shaft_mid, VScale(side, head_w)),
                       tip,
                       VAdd(shaft_mid, VScale(side2, head_w)),
                       tip,
                       VSub(shaft_mid, VScale(side2, head_w)) >>,
         tip    |-> tip]

\* ------------------------------------------------------------------------
\* Host data: objects, contexts, viewports, events
\* ------------------------------------------------------------------------

Identity3 == << <<SCALE, 0, 0>>, <<0, SCALE, 0>>, <<0, 0, SCALE>> >>

\* context.object is None.
NoObject == [type |-> "NONE", translation |-> <<0, 0, 0>>, m3 |-> Identity3]

\* context.object candidates: a mesh at the world origin, a mesh moved,
\* rotated a quarter turn about Z and scaled by 2, and a non-mesh object.
Objects ==
    { [type |-> "MESH", translation |-> <<0, 0, 0>>, m3 |-> Identity3],
      [type |-> "MESH", translation |-> <<SCALE, 0, 0>>,
       m3 |-> << <<0, -2 * SCALE, 0>>, <<2 * SCALE, 0, 0>>, <<0, 0, 2 * SCALE>> >>],
      [type |-> "CURVE", translation |-> <<0, 0, 0>>, m3 |-> Identity3] }

\* What the operator reads of its context.  area_type: context.area.type, or
\* "NONE" when context.area is None.  has_region_3d: whether
\* context.space_data has the attribute region_3d (with no area there is no
\* space_data either).
Contexts ==
    { c \in [object : Objects \cup {NoObject},
             mode : {"EDIT_MESH", "OBJECT"},
             area_type : {"VIEW_3D", "CONSOLE", "NONE"},
             has_region_3d : BOOLEAN] :
        c.area_type = "NONE" => ~c.has_region_3d }

\* prefs.arrow_size (its default), in pixels.
arrow_size == 80

\* Viewport states (context.region + context.space_data.region_3d).
\*   rot            view_rotation as a matrix whose columns are the view's
\*                  right, up and backward directions
\*   eye            the viewpoint
\*   is_perspective perspective (divide by depth) or orthographic
\*   zoom           pixels per world unit (orthographic) or per unit of
\*                  x/depth (perspective)
\*   cx, cy         the region's centre, in pixels
Views ==
    << \* 1: orthographic, looking down -Z
       [rot |-> Identity3, eye |-> <<0, 0, 10 * SCALE>>,
        is_perspective |-> FALSE, zoom |-> 40, cx |-> 200, cy |-> 150],
       \* 2: perspective, looking down -Z with the objects behind the viewpoint
       [rot |-> Identity3, eye |-> <<0, 0, -10 * SCALE>>,
        is_perspective |-> TRUE, zoom |-> 400, cx |-> 200, cy |-> 150],
       \* 3: wide perspective, looking down -Z: the Z+ tip is behind the viewpoint
       [rot |-> Identity3, eye |-> <<0, 0, 10 * SCALE>>,
        is_perspective |-> TRUE, zoom |-> 50, cx |-> 200, cy |-> 150],
       \* 4: orthographic, looking almost along -X (turned about Y)
       [rot |-> << <<220, 0, 976>>, <<0, SCALE, 0>>, <<-976, 0, 220>> >>,
        eye |-> <<10 * SCALE, 0, 2 * SCALE>>,
        is_perspective |-> FALSE, zoom |-> 40, cx |-> 200, cy |-> 150] >>

ViewRight(rv) == MatVec(rv.rot, Vector(SCALE, 0, 0))

ViewUp(rv) == MatVec(rv.rot, Vector(0, SCALE, 0))

\* rv3d.view_rotation @ Vector((0, 0, -1))
ViewForward(rv) == MatVec(rv.rot, Vector(0, 0, -SCALE))

\* The w of the projected point: its depth in a perspective view, 1.0 in an
\* orthographic one.
ProjW(rv, p) == IF rv.is_perspective THEN Dot(VSub(p, rv.eye), ViewForward(rv))
                                     ELSE SCALE

\* view3d_utils.location_3d_to_region_2d: the region pixel (in 1/PX) of world
\* point p, or the empty tuple (None) when p is not in front of the viewpoint.
location_3d_to_region_2d(rv, p) ==
    LET rel == VSub(p, rv.eye)
        w   == ProjW(rv, p)
    IN  IF w > 0
        THEN << rv.cx * PX + RDiv(rv.zoom * PX * Dot(rel, ViewRight(rv)), w),
                rv.cy * PX + RDiv(rv.zoom * PX * Dot(rel, ViewUp(rv)), w) >>
        ELSE << >>

\* view3d_utils.region_2d_to_location_3d: the world point seen at region
\* pixel coord (in 1/PX) at the depth of depth_location.
region_2d_to_location_3d(rv, coord, depth_location) ==
    LET rel   == VSub(depth_location, rv.eye)
        depth == Dot(rel, ViewForward(rv))
        w     == ProjW(rv, depth_location)
        xc    == RDiv((coord[1] - rv.cx * PX) * w, rv.zoom * PX)
        yc    == RDiv((coord[2] - rv.cy * PX) * w, rv.zoom * PX)
    IN  VAdd(VAdd(VAdd(rv.eye, VScale(ViewRight(rv), xc)),
                  VScale(ViewUp(rv), yc)),
             VScale(ViewForward(rv), depth))

\* ------------------------------------------------------------------------
\* update_arrows
\* ------------------------------------------------------------------------

\* for axis_name, vec in axes.items(): dict insertion order.
AxisNames == <<"X", "Y", "Z">>

\* Variant: the negative half-axis comes first.
Signs_negativeFirst == <<-1, 1>>

\* for sign in (1, -1)
Signs == <<1, -1>>

AxisUnit(axis_name) ==
    CASE axis_name = "X" -> Vector(SCALE, 0, 0)
      [] axis_name = "Y" -> Vector(0, SCALE, 0)
      [] axis_name = "Z" -> Vector(0, 0, SCALE)

colors(axis_name) ==
    CASE axis_name = "X" -> <<SCALE, 100, 100, SCALE>>
      [] axis_name = "Y" -> <<100, SCALE, 100, SCALE>>
      [] axis_name = "Z" -> <<100, 500, SCALE, SCALE>>

\* dark_mul = 0.45
dark_mul == 450

\* dot_val > 0.96
TiltDot == 960

\* tilt magnitude 0.1
TiltSize == 100

ArrowColor(axis_name, sign) ==
    LET c == colors(axis_name)
    IN  IF sign > 0 THEN c
        ELSE <<Mul(c[1], dark_mul), Mul(c[2], dark_mul), Mul(c[3], dark_mul), SCALE>>

\* Variant: a direction nearly parallel to the view ray is skipped instead of
\* tilted.
ArrowFor_skipsParallel(obj, rv, axis_name, sign) ==
    LET origin      == obj.translation
        view_dir    == Normalized(ViewForward(rv))
        vec         == MatVec(obj.m3, AxisUnit(axis_name))
        dir0        == <<vec[1] * sign, vec[2] * sign, vec[3] * sign>>
        dot_val     == Abs(Dot(Normalized(dir0), view_dir))
        p_origin_2d == location_3d_to_region_2d(rv, origin)
    IN  IF p_origin_2d = << >> \/ dot_val > TiltDot THEN << >>
        ELSE LET offset_2d == <<p_origin_2d[1] + arrow_size * PX, p_origin_2d[2]>>
                 p_tip_ws  == region_2d_to_location_3d(rv, offset_2d, origin)
                 length    == VLength(VSub(p_tip_ws, origin))
                 solid     == make_solid_arrow(origin, dir0, length)
             IN  << [axis |-> axis_name, sign |-> sign, points |-> solid.points,
                     tip |-> solid.tip, color |-> ArrowColor(axis_name, sign)] >>

\* One pass of the loop body for (axis_name, sign): the arrow appended, as a
\* sequence of length 1, or the empty sequence when the body hits `continue`.
ArrowFor(obj, rv, axis_name, sign) ==
    LET origin      == obj.translation
        view_dir    == Normalized(ViewForward(rv))
        vec         == MatVec(obj.m3, AxisUnit(axis_name))
        dir0        == <<vec[1] * sign, vec[2] * sign, vec[3] * sign>>
        dot_val     == Abs(Dot(Normalized(dir0), view_dir))
        dir_ws      == IF dot_val > TiltDot
                       THEN Normalized(VAdd(dir0,
                                VScale(Normalized(Cross(view_dir, dir0)), TiltSize)))
                       ELSE dir0
        p_origin_2d == location_3d_to_region_2d(rv, origin)
    IN  IF p_origin_2d = << >> THEN << >>
        ELSE LET offset_2d == <<p_origin_2d[1] + arrow_size * PX, p_origin_2d[2]>>
                 p_tip_ws  == region_2d_to_location_3d(rv, offset_2d, origin)
                 length    == VLength(VSub(p_tip_ws, origin))
                 solid     == make_solid_arrow(origin, dir_ws, length)
             IN  << [axis |-> axis_name, sign |-> sign, points |-> solid.points,
                     tip |-> solid.tip, color |-> ArrowColor(axis_name, sign)] >>

RECURSIVE ArrowLoop(_, _, _, _)
ArrowLoop(obj, rv, k, acc) ==
    IF k > Len(AxisNames) * Len(Signs) THEN acc
    ELSE ArrowLoop(obj, rv, k + 1,
                   acc \o ArrowFor(obj, rv,
                                   AxisNames[((k - 1) \div Len(Signs)) + 1],
                                   Signs[((k - 1) % Len(Signs)) + 1]))

\* The loop of update_arrows for every object and viewport state, evaluated
\* once.
ArrowCache ==
    [o \in Objects, v \in 1..Len(Views) |-> ArrowLoop(o, Views[v], 1, << >>)]

\* Variant: the list is not cleared before the loop appends to it.
update_arrows_noClear(c, v, old) ==
    IF c.object = NoObject THEN old
    ELSE old \o ArrowCache[c.object, v]

\* update_arrows, with the viewport in state Views[v]: the new contents of
\* the class-level list _arrows.
update_arrows(c, v, old) ==
    IF c.object = NoObject THEN old
    ELSE ArrowCache[c.object, v]

\* ------------------------------------------------------------------------
\* Events delivered to modal()
\* ------------------------------------------------------------------------

\* Pointer positions (event.mouse_region_x, event.mouse_region_y), in pixels.
Pointers ==
    { <<200, 150>>, <<300, 150>>, <<301, 150>>, <<292, 166>>, <<293, 166>> }

Event(type, value, alt, p) ==
    [type |-> type, value |-> value, alt |-> alt,
     mouse_region_x |-> p[1], mouse_region_y |-> p[2]]

\* No event yet (before the first handler call).
NoEvent == Event("NONE", "NOTHING", FALSE, <<0, 0>>)

PassThroughTypes ==
    {"MIDDLEMOUSE", "WHEELUPMOUSE", "WHEELDOWNMOUSE", "WHEELINMOUSE", "WHEELOUTMOUSE"}

Events ==
    { Event("MOUSEMOVE", "NOTHING", FALSE, p) : p \in Pointers }
    \cup { Event("MOUSEMOVE", "NOTHING", TRUE, <<200, 150>>) }
    \cup { Event("TIMER", "NOTHING", FALSE, <<200, 150>>) }
    \cup { Event(t, "PRESS", FALSE, <<200, 150>>) : t \in PassThroughTypes }
    \cup { Event("MIDDLEMOUSE", "RELEASE", TRUE, <<200, 150>>) }
    \cup { Event(t, v, FALSE, <<200, 150>>) :
             t \in {"RIGHTMOUSE", "LEFTMOUSE"}, v \in {"PRESS", "RELEASE"} }
    \cup { Event("ESC", "PRESS", FALSE, <<200, 150>>),
           Event("LEFTMOUSE", "PRESS", TRUE, <<200, 150>>),
           Event("A", "PRESS", FALSE, <<200, 150>>) }

\* ------------------------------------------------------------------------
\* State
\* ------------------------------------------------------------------------

VARIABLES
    session,       \* number of operator instances created so far
    ctx,           \* the context of the current instance (as of invoke)
    view,          \* index in Views of the viewport's current state
    wmTimers,      \* window-manager timers that exist (event_timer_add/remove)
    drawHandlers,  \* SpaceView3D draw handlers that exist
    state,         \* IDLE, ACTIVE, COMMITTED, CANCELLED, or ERROR (the modal
                   \* handler raised and the host dropped the operator)
    _timer,        \* self._timer
    _handle,       \* self._handle
    _arrows,       \* MESH_OT_smart_symmetrize_modal._arrows (class level)
    _hover,        \* self._hover
    op,            \* the step just taken: invoke, modal, navigate, timer, draw
    event,         \* the event the last invoke/modal call was given
    result,        \* what the last invoke/modal call returned, or EXCEPTION
    log,           \* calls made by the last invoke/modal call, in order: host
                   \* calls and self.update_arrows
    mirror,        \* calls of bpy.ops.mesh.symmetrize made by this instance
    fired,         \* the timer whose tick, or the draw handler whose callback,
                   \* the last step delivered; None otherwise
    built          \* the last call of make_solid_arrow made on its own: its
                   \* arguments and what it returned

VARIABLES
    registered,        \* register() has run and unregister() has not
    keyconfigs_addon,  \* whether wm.keyconfigs.addon exists (it does not in
                       \* background mode)
    addon_keymaps,     \* the module-level list addon_keymaps: the ids of the
                       \* keymap items of its (km, kmi) pairs, in order
    keymap_items,      \* the items this add-on's code has put in the host's
                       \* "Mesh" keymap and that are still in it
    prefs,             \* SmartSymPreferences: hotkey_type, hotkey_ctrl,
                       \* hotkey_shift, hotkey_alt, waiting_input
    capture            \* whether a BH_OT_ChangeHotkey instance is modal

hotkeyVars == <<registered, keyconfigs_addon, addon_keymaps, keymap_items, prefs,
                capture>>

vars == <<session, ctx, view, wmTimers, drawHandlers, state, _timer, _handle,
          _arrows, _hover, op, event, result, log, mirror, fired, built,
          registered, keyconfigs_addon, addon_keymaps, keymap_items, prefs,
          capture>>

\* A call made by a handler: its name, the id of the timer/handler it is
\* about (or None) and its text argument (or "").
Call(api, id, text) == [api |-> api, id |-> id, text |-> text]

\* if context.area: context.area.tag_redraw()
tag_redraw(c) ==
    IF c.area_type # "NONE" THEN << Call("tag_redraw", None, "") >> ELSE << >>

\* ------------------------------------------------------------------------
\* Preferences and hotkey management
\* ------------------------------------------------------------------------

\* SmartSymPreferences as declared: hotkey Alt+X, not waiting for input.
DefaultPrefs ==
    [hotkey_type |-> "X", hotkey_ctrl |-> FALSE, hotkey_shift |-> FALSE,
     hotkey_alt |-> TRUE, waiting_input |-> FALSE]

\* SmartSymPreferences._format_hotkey: the parts joined with " + ".
_format_hotkey(p) ==
    (IF p.hotkey_ctrl THEN "Ctrl + " ELSE "")
    \o (IF p.hotkey_shift THEN "Shift + " ELSE "")
    \o (IF p.hotkey_alt THEN "Alt + " ELSE "")
    \o p.hotkey_type

\* The id of the next keymap item the host creates in keymap km: an id no
\* item of km has.
NewItemId(km) ==
    CHOOSE n \in 1..(Cardinality(km) + 1) :
        /\ \A it \in km : it.id # n
        /\ \A m \in 1..(n - 1) : \E it \in km : it.id = m

\* km.keymap_items.new("mesh.smart_symmetrize_modal", type=..., value="PRESS",
\*                     ctrl=..., shift=..., alt=...)
KeymapItem(id, p) ==
    [id |-> id, idname |-> "mesh.smart_symmetrize_modal",
     type |-> p.hotkey_type, value |-> "PRESS",
     ctrl |-> p.hotkey_ctrl, shift |-> p.hotkey_shift, alt |-> p.hotkey_alt]

\* register_hotkey(), given whether wm.keyconfigs.addon exists (kc), the
\* preferences p, the keymap's items km and the list addon_keymaps (reg):
\* the items and the list it leaves.
register_hotkey(kc, p, km, reg) ==
    IF ~kc THEN [keymap_items |-> km, addon_keymaps |-> reg]
    ELSE [keymap_items  |-> km \cup { KeymapItem(NewItemId(km), p) },
          addon_keymaps |-> Append(reg, NewItemId(km))]

\* Variant: the list is not cleared after its items are removed.
unregister_hotkey_noClear(km, reg) ==
    [keymap_items  |-> { it \in km : \A k \in 1..Len(reg) : reg[k] # it.id },
     addon_keymaps |-> reg]

\* unregister_hotkey(): every item of the list is removed from the keymap,
\* then the list is cleared.
unregister_hotkey(km, reg) ==
    [keymap_items  |-> { it \in km : \A k \in 1..Len(reg) : reg[k] # it.id },
     addon_keymaps |-> << >>]

\* The state after the add-on is registered and before the first invocation:
\* the class attributes as written in the class body.
NotBuilt ==
    [base |-> <<0, 0, 0>>, direction |-> <<0, 0, 0>>, length |-> 0,
     points |-> << >>, tip |-> <<0, 0, 0>>]

InitSession ==
    /\ built = NotBuilt
    /\ session = 0
    /\ ctx \in { c \in Contexts : c.area_type = "VIEW_3D" /\ c.has_region_3d
                                   /\ c.mode = "OBJECT" /\ c.object = NoObject }
    /\ view \in 1..Len(Views)
    /\ wmTimers = {}
    /\ drawHandlers = {}
    /\ state = "IDLE"
    /\ _timer = None
    /\ _handle = None
    /\ _arrows = << >>
    /\ _hover = None
    /\ event = NoEvent
    /\ result = "NONE"
    /\ log = << >>
    /\ mirror = << >>
    /\ fired = None

\* register() has run in an interactive session with the preferences as
\* declared.
Init ==
    /\ InitSession
    /\ op = "register"
    /\ registered = TRUE
    /\ keyconfigs_addon = TRUE
    /\ prefs = DefaultPrefs
    /\ keymap_items = register_hotkey(TRUE, DefaultPrefs, {}, << >>).keymap_items
    /\ addon_keymaps = register_hotkey(TRUE, DefaultPrefs, {}, << >>).addon_keymaps
    /\ capture = FALSE

\* ------------------------------------------------------------------------
\* invoke
\* ------------------------------------------------------------------------

\* Variant: the hit test stored the hover index on the class, so that a new
\* instance reads the index the last one left.
instance_defaults_sharedHover ==
    [_handle |-> None, _timer |-> None, _hover |-> _hover]

\* What a new operator instance reads for the attributes it has not assigned
\* yet: the class attributes _handle = None, _timer = None, _hover = None.
instance_defaults ==
    [_handle |-> None, _timer |-> None, _hover |-> None]

\* The host creates a new operator instance (its _timer, _handle and _hover
\* read the class defaults, None; _arrows is the one class-level list) and
\* calls invoke on it.  No invocation arrives while a session is modal.
invoke(c) ==
    /\ state # "ACTIVE"
    /\ session < MaxSessions
    /\ session' = session + 1
    /\ ctx' = c
    /\ op' = "invoke"
    /\ event' = NoEvent
    /\ mirror' = << >>
    /\ fired' = None
    /\ _hover' = instance_defaults._hover
    /\ UNCHANGED <<view, built>>
    /\ UNCHANGED hotkeyVars
    /\ IF c.object = NoObject \/ c.object.type # "MESH" \/ c.mode # "EDIT_MESH"
       THEN /\ log' = << Call("report", None, "WARNING: Edit Mode mesh required") >>
            /\ result' = "CANCELLED"
            /\ state' = "IDLE"
            /\ _timer' = instance_defaults._timer
            /\ _handle' = instance_defaults._handle
            /\ UNCHANGED <<_arrows, wmTimers, drawHandlers>>
       ELSE IF ~c.has_region_3d
       THEN \* update_arrows: context.space_data.region_3d raises AttributeError
            /\ log' = << Call("update_arrows", None, "") >>
            /\ result' = "EXCEPTION"
            /\ state' = "IDLE"
            /\ _timer' = instance_defaults._timer
            /\ _handle' = instance_defaults._handle
            /\ UNCHANGED <<_arrows, wmTimers, drawHandlers>>
       ELSE /\ _arrows' = update_arrows(c, view, _arrows)
            /\ _timer' = session'
            /\ wmTimers' = wmTimers \cup {session'}
            /\ IF c.area_type = "VIEW_3D"
               THEN /\ _handle' = session'
                    /\ drawHandlers' = drawHandlers \cup {session'}
                    /\ log' = << Call("update_arrows", None, ""),
                                 Call("event_timer_add", session', ""),
                                 Call("draw_handler_add", session', ""),
                                 Call("modal_handler_add", None, "") >>
                    /\ result' = "RUNNING_MODAL"
                    /\ state' = "ACTIVE"
               ELSE /\ _handle' = instance_defaults._handle
                    /\ UNCHANGED drawHandlers
                    /\ log' = << Call("update_arrows", None, ""),
                                 Call("event_timer_add", session', ""),
                                 Call("report", None, "WARNING: View3D area required") >>
                    /\ result' = "CANCELLED"
                    /\ state' = "IDLE"

\* ------------------------------------------------------------------------
\* finish
\* ------------------------------------------------------------------------

\* Variant: finish forgets the draw handler.
finish_keepsHandler ==
    [wmTimers     |-> IF _timer # None THEN wmTimers \ {_timer} ELSE wmTimers,
     drawHandlers |-> drawHandlers,
     calls        |-> (IF _timer # None
                       THEN << Call("event_timer_remove", _timer, "") >> ELSE << >>)
                      \o tag_redraw(ctx)]

\* finish(): the timers and draw handlers it leaves, and the host calls it
\* makes, in order.
finish ==
    [wmTimers     |-> IF _timer # None THEN wmTimers \ {_timer} ELSE wmTimers,
     drawHandlers |-> IF _handle # None THEN drawHandlers \ {_handle} ELSE drawHandlers,
     calls        |-> (IF _timer # None
                       THEN << Call("event_timer_remove", _timer, "") >> ELSE << >>)
                      \o (IF _handle # None
                          THEN << Call("draw_handler_remove", _handle, "") >> ELSE << >>)
                      \o tag_redraw(ctx)]

\* ------------------------------------------------------------------------
\* modal
\* ------------------------------------------------------------------------

\* tol = 20 (pixels)
tol == 20

\* Variant: the comparison is strict.
TipHit_strict(rv, a, mx, my) ==
    LET tip_2d == location_3d_to_region_2d(rv, a.tip)
    IN  /\ tip_2d # << >>
        /\ (mx * PX - tip_2d[1]) * (mx * PX - tip_2d[1])
             + (my * PX - tip_2d[2]) * (my * PX - tip_2d[2])
           < (tol * PX) * (tol * PX)

\* Whether arrow a's tip projects within tol of the pointer (mx, my).
TipHit(rv, a, mx, my) ==
    LET tip_2d == location_3d_to_region_2d(rv, a.tip)
    IN  /\ tip_2d # << >>
        /\ (mx * PX - tip_2d[1]) * (mx * PX - tip_2d[1])
             + (my * PX - tip_2d[2]) * (my * PX - tip_2d[2])
           <= (tol * PX) * (tol * PX)

\* for i, a in enumerate(self._arrows): ... break  (i counts from 0)
RECURSIVE HoverScan(_, _, _, _, _)
HoverScan(arrs, rv, mx, my, i) ==
    IF i >= Len(arrs) THEN None
    ELSE IF TipHit(rv, arrs[i + 1], mx, my) THEN i
    ELSE HoverScan(arrs, rv, mx, my, i + 1)

\* Every value _arrows can take.
ArrowLists == { ArrowCache[o, v] : o \in Objects, v \in 1..Len(Views) } \cup { << >> }

\* The hit-test loop for every arrow list, viewport state and pointer,
\* evaluated once.
HoverCache ==
    [arrs \in ArrowLists, v \in 1..Len(Views), p \in Pointers |->
        HoverScan(arrs, Views[v], p[1], p[2], 0)]

\* The direction token of arrow a.
DirectionToken(a) == (IF a.sign > 0 THEN "POSITIVE" ELSE "NEGATIVE") \o "_" \o a.axis

\* threshold=0.0001
threshold == "0.0001"

\* Variant: a pointer move with alt held is handled like any other move.
IsPassThrough_ignoresAlt(e) == e.type \in PassThroughTypes

\* Variant: any mouse button but the middle one cancels.
IsCancel_anyButton(e) == e.type \in {"RIGHTMOUSE", "ESC", "LEFTMOUSE"}

IsPassThrough(e) ==
    \/ e.type \in PassThroughTypes
    \/ (e.type = "MOUSEMOVE" /\ e.alt)

\* if event.type in {'RIGHTMOUSE', 'ESC'}
IsCancel(e) == e.type \in {"RIGHTMOUSE", "ESC"}

\* Variant: the button's release commits as well as its press.
IsCommit_anyValue(e, hover) == e.type = "LEFTMOUSE" /\ hover # None

\* if event.type == 'LEFTMOUSE' and event.value == 'PRESS' and self._hover is not None
IsCommit(e, hover) == e.type = "LEFTMOUSE" /\ e.value = "PRESS" /\ hover # None

\* Variant: the pass-through test comes before the redraw request.
modal_calls_passThroughFirst(c, e, rest) ==
    IF IsPassThrough(e) THEN rest
    ELSE tag_redraw(c)
         \o (IF e.type = "TIMER" THEN << Call("update_arrows", None, "") >> ELSE << >>)
         \o rest

\* The calls of one modal call, in order: the redraw request, update_arrows
\* on a TIMER event, then the calls of the branch taken (rest).
modal_calls(c, e, rest) ==
    tag_redraw(c)
    \o (IF e.type = "TIMER" THEN << Call("update_arrows", None, "") >> ELSE << >>)
    \o rest

\* The host delivers event e to the modal handler of the running session,
\* with the context the handler was added in (ctx).
\* raises: whether bpy.ops.mesh.symmetrize raises, should it be called.
modal(e, raises) ==
    /\ state = "ACTIVE"
    /\ e.type = "TIMER" => wmTimers # {}
    /\ raises => IsCommit(e, _hover)
    /\ op' = "modal"
    /\ event' = e
    /\ fired' = IF e.type = "TIMER" THEN CHOOSE t \in wmTimers : TRUE ELSE None
    /\ UNCHANGED <<session, ctx, view, _timer, _handle, built>>
    /\ UNCHANGED hotkeyVars
    \* if event.type == 'TIMER': self.update_arrows(context)
    /\ _arrows' = IF e.type = "TIMER" THEN update_arrows(ctx, view, _arrows)
                                      ELSE _arrows
    \* if event.type == 'MOUSEMOVE': the hit test (not reached on pass-through)
    /\ _hover' = IF e.type = "MOUSEMOVE" /\ ~IsPassThrough(e)
                 THEN HoverCache[_arrows', view, <<e.mouse_region_x, e.mouse_region_y>>]
                 ELSE _hover
    /\ IF IsPassThrough(e)
       THEN /\ result' = "PASS_THROUGH"
            /\ log' = modal_calls(ctx, e, << >>)
            /\ UNCHANGED <<state, wmTimers, drawHandlers, mirror>>
       ELSE IF IsCancel(e)
       THEN /\ wmTimers' = finish.wmTimers
            /\ drawHandlers' = finish.drawHandlers
            /\ log' = modal_calls(ctx, e, finish.calls)
            /\ result' = "CANCELLED"
            /\ state' = "CANCELLED"
            /\ UNCHANGED mirror
       ELSE IF IsCommit(e, _hover')
       THEN IF _hover' >= Len(_arrows')
            THEN \* a = self._arrows[self._hover] raises IndexError
                 /\ log' = modal_calls(ctx, e, << >>)
                 /\ result' = "EXCEPTION"
                 /\ state' = "ERROR"
                 /\ UNCHANGED <<wmTimers, drawHandlers, mirror>>
            ELSE /\ mirror' = Append(mirror,
                                  [direction |-> DirectionToken(_arrows'[_hover' + 1]),
                                   threshold |-> threshold])
                 /\ IF raises
                    THEN /\ log' = modal_calls(ctx, e,
                                      << Call("mesh.symmetrize", None,
                                              mirror'[Len(mirror')].direction) >>)
                         /\ result' = "EXCEPTION"
                         /\ state' = "ERROR"
                         /\ UNCHANGED <<wmTimers, drawHandlers>>
                    ELSE /\ wmTimers' = finish.wmTimers
                         /\ drawHandlers' = finish.drawHandlers
                         /\ log' = modal_calls(ctx, e,
                                      << Call("mesh.symmetrize", None,
                                              mirror'[Len(mirror')].direction) >>
                                      \o finish.calls)
                         /\ result' = "FINISHED"
                         /\ state' = "COMMITTED"
       ELSE /\ log' = modal_calls(ctx, e, << >>)
            /\ result' = "RUNNING_MODAL"
            /\ UNCHANGED <<state, wmTimers, drawHandlers, mirror>>

\* ------------------------------------------------------------------------
\* The host between handler calls
\* ------------------------------------------------------------------------

\* The host's navigation changes the viewport: on an event the handler passed
\* through, or at any time while no session is modal.
navigate(v) ==
    /\ state # "ACTIVE" \/ result = "PASS_THROUGH"
    /\ v # view
    /\ view' = v
    /\ op' = "navigate"
    /\ fired' = None
    /\ UNCHANGED <<session, ctx, wmTimers, drawHandlers, state, _timer, _handle,
                   _arrows, _hover, event, result, log, mirror, built>>
    /\ UNCHANGED hotkeyVars

\* A timer that still exists ticks while no session is modal: its TIMER
\* event reaches no handler of this operator.
timer_tick(t) ==
    /\ state # "ACTIVE"
    /\ t \in wmTimers
    /\ op' = "timer"
    /\ fired' = t
    /\ UNCHANGED <<session, ctx, view, wmTimers, drawHandlers, state, _timer,
                   _handle, _arrows, _hover, event, result, log, mirror, built>>
    /\ UNCHANGED hotkeyVars

\* The viewport redraws and calls the draw callback of a handler that still
\* exists.
draw_callback(h) ==
    /\ h \in drawHandlers
    /\ op' = "draw"
    /\ fired' = h
    /\ UNCHANGED <<session, ctx, view, wmTimers, drawHandlers, state, _timer,
                   _handle, _arrows, _hover, event, result, log, mirror, built>>
    /\ UNCHANGED hotkeyVars

Next ==
    \/ \E c \in Contexts : invoke(c)
    \/ \E e \in Events, raises \in BOOLEAN : modal(e, raises)
    \/ \E v \in 1..Len(Views) : navigate(v)
    \/ \E t \in 1..MaxSessions : timer_tick(t)
    \/ \E h \in 1..MaxSessions : draw_callback(h)

Spec == Init /\ [][Next]_vars

\* ------------------------------------------------------------------------
\* make_solid_arrow on its own
\* ------------------------------------------------------------------------

Bases == { <<0, 0, 0>>, <<SCALE, 0, 0>>, <<-500, 250, 3 * SCALE>> }

\* Unit and non-unit directions, along and off the axes, along world Y (the
\* fallback for side), and the zero vector.
Directions ==
    { <<SCALE, 0, 0>>, <<-SCALE, 0, 0>>, <<0, SCALE, 0>>, <<0, -2 * SCALE, 0>>,
      <<0, 0, SCALE>>, <<0, 0, -2 * SCALE>>, <<3 * SCALE, 4 * SCALE, 0>>,
      <<SCALE, -100, 0>>, <<SCALE, SCALE, SCALE>>, <<0, 0, 0>> }

Lengths == { 0, SCALE, 2 * SCALE, 2002, 16 * SCALE }

build(base, direction, length) ==
    /\ built' = [base |-> base, direction |-> direction, length |-> length,
                 points |-> make_solid_arrow(base, direction, length).points,
                 tip |-> make_solid_arrow(base, direction, length).tip]
    /\ UNCHANGED <<session, ctx, view, wmTimers, drawHandlers, state, _timer,
                   _handle, _arrows, _hover, op, event, result, log, mirror, fired>>
    /\ UNCHANGED hotkeyVars

NextArrow == \E b \in Bases, d \in Directions, l \in Lengths : build(b, d, l)

InitArrow == Init /\ view = 1

SpecArrow == InitArrow /\ [][NextArrow]_vars

\* ------------------------------------------------------------------------
\* register / unregister and the hotkey operators
\* ------------------------------------------------------------------------

\* The variables of the Smart Symmetrize session, which the hotkey code does
\* not touch.
sessionVars == <<session, ctx, view, wmTimers, drawHandlers, state, _timer,
                 _handle, _arrows, _hover, mirror, fired, built>>

\* What BH_OT_ChangeHotkey.modal reads of an event.
KeyEvent(type, value, ctrl, shift, alt) ==
    [type |-> type, value |-> value, ctrl |-> ctrl, shift |-> shift, alt |-> alt]

ModifierKeys ==
    {"LEFT_SHIFT", "RIGHT_SHIFT", "LEFT_CTRL", "RIGHT_CTRL", "LEFT_ALT", "RIGHT_ALT"}

\* Events delivered to the capture: presses and releases of keys and mouse
\* buttons with every modifier state, pointer moves and timer events.
KeyEvents ==
    { KeyEvent(t, v, c, sh, a) :
        t \in ModifierKeys \cup {"ESC", "RIGHTMOUSE", "X", "S", "LEFTMOUSE"},
        v \in {"PRESS", "RELEASE"}, c \in BOOLEAN, sh \in BOOLEAN, a \in BOOLEAN }
    \cup { KeyEvent(t, "NOTHING", FALSE, sh, a) :
             t \in {"MOUSEMOVE", "TIMER"}, sh \in BOOLEAN, a \in BOOLEAN }

\* register(): the classes, then register_hotkey().
register ==
    /\ ~registered
    /\ registered' = TRUE
    /\ keymap_items' = register_hotkey(keyconfigs_addon, prefs, keymap_items,
                                       addon_keymaps).keymap_items
    /\ addon_keymaps' = register_hotkey(keyconfigs_addon, prefs, keymap_items,
                                        addon_keymaps).addon_keymaps
    /\ op' = "register"
    /\ event' = NoEvent
    /\ result' = "NONE"
    /\ log' = << >>
    /\ UNCHANGED <<keyconfigs_addon, prefs, capture>>
    /\ UNCHANGED sessionVars

\* unregister(): unregister_hotkey(), then the classes.  The host does not
\* disable the add-on while one of its operators is modal.
unregister ==
    /\ registered
    /\ ~capture
    /\ registered' = FALSE
    /\ keymap_items' = unregister_hotkey(keymap_items, addon_keymaps).keymap_items
    /\ addon_keymaps' = unregister_hotkey(keymap_items, addon_keymaps).addon_keymaps
    /\ op' = "unregister"
    /\ event' = NoEvent
    /\ result' = "NONE"
    /\ log' = << >>
    /\ UNCHANGED <<keyconfigs_addon, prefs, capture>>
    /\ UNCHANGED sessionVars

\* BH_OT_ChangeHotkey.invoke, from the button of the preferences panel (drawn
\* only while waiting_input is false, in a session with windows).
BH_OT_ChangeHotkey_invoke ==
    /\ registered
    /\ keyconfigs_addon
    /\ ~capture
    /\ prefs' = [prefs EXCEPT !.waiting_input = TRUE]
    /\ capture' = TRUE
    /\ op' = "bh_sym.change_hotkey.invoke"
    /\ event' = NoEvent
    /\ result' = "RUNNING_MODAL"
    /\ log' = << Call("modal_handler_add", None, "") >>
    /\ UNCHANGED <<registered, keyconfigs_addon, addon_keymaps, keymap_items>>
    /\ UNCHANGED sessionVars

\* Variant: only escape cancels the capture.
IsCaptureCancel_escOnly(e) == e.type = "ESC"

\* if event.type in {'ESC', 'RIGHTMOUSE'}
IsCaptureCancel(e) == e.type \in {"ESC", "RIGHTMOUSE"}

\* if event.type in {'LEFT_SHIFT', 'RIGHT_SHIFT', 'LEFT_CTRL', ...}
IsModifierKey(e) == e.type \in ModifierKeys

\* BH_OT_ChangeHotkey.modal, given event e.
BH_OT_ChangeHotkey_modal(e) ==
    /\ capture
    /\ op' = "bh_sym.change_hotkey.modal"
    /\ event' = e
    /\ UNCHANGED <<registered, keyconfigs_addon>>
    /\ UNCHANGED sessionVars
    /\ IF e.value = "PRESS" /\ IsCaptureCancel(e)
       THEN /\ prefs' = [prefs EXCEPT !.waiting_input = FALSE]
            /\ capture' = FALSE
            /\ result' = "CANCELLED"
            /\ log' = << >>
            /\ UNCHANGED <<addon_keymaps, keymap_items>>
       ELSE IF e.value = "PRESS" /\ ~IsModifierKey(e)
       THEN LET un == unregister_hotkey(keymap_items, addon_keymaps)
                p  == [hotkey_type |-> e.type, hotkey_ctrl |-> e.ctrl,
                       hotkey_shift |-> e.shift, hotkey_alt |-> e.alt,
                       waiting_input |-> FALSE]
                re == register_hotkey(keyconfigs_addon, p, un.keymap_items,
                                      un.addon_keymaps)
            IN  /\ prefs' = p
                /\ keymap_items' = re.keymap_items
                /\ addon_keymaps' = re.addon_keymaps
                /\ capture' = FALSE
                /\ result' = "FINISHED"
                /\ log' = << Call("report", None,
                                  "INFO: New hotkey: " \o _format_hotkey(p)) >>
       ELSE /\ result' = "RUNNING_MODAL"
            /\ log' = << >>
            /\ UNCHANGED <<addon_keymaps, keymap_items, prefs, capture>>

\* BH_OT_ResetHotkey.execute, from the button of the preferences panel or
\* from a script.
BH_OT_ResetHotkey_execute ==
    /\ registered
    /\ ~capture
    /\ LET un == unregister_hotkey(keymap_items, addon_keymaps)
           p  == [prefs EXCEPT !.hotkey_type = "X", !.hotkey_ctrl = FALSE,
                               !.hotkey_shift = FALSE, !.hotkey_alt = TRUE]
           re == register_hotkey(keyconfigs_addon, p, un.keymap_items,
                                 un.addon_keymaps)
       IN  /\ prefs' = p
           /\ keymap_items' = re.keymap_items
           /\ addon_keymaps' = re.addon_keymaps
    /\ op' = "bh_sym.reset_hotkey"
    /\ event' = NoEvent
    /\ result' = "FINISHED"
    /\ log' = << Call("report", None, "INFO: Hotkey reset to Alt+X") >>
    /\ UNCHANGED <<registered, keyconfigs_addon, capture>>
    /\ UNCHANGED sessionVars

NextHotkey ==
    \/ register
    \/ unregister
    \/ BH_OT_ChangeHotkey_invoke
    \/ \E e \in KeyEvents : BH_OT_ChangeHotkey_modal(e)
    \/ BH_OT_ResetHotkey_execute

\* The add-on is loaded with the preferences as declared and register() has
\* not run yet, in a session with windows or in background mode.
InitHotkey ==
    /\ InitSession
    /\ view = 1
    /\ op = "load"
    /\ registered = FALSE
    /\ keyconfigs_addon \in BOOLEAN
    /\ prefs = DefaultPrefs
    /\ keymap_items = {}
    /\ addon_keymaps = << >>
    /\ capture = FALSE

SpecHotkey == InitHotkey /\ [][NextHotkey]_vars

\* ------------------------------------------------------------------------
\* Properties
\* ------------------------------------------------------------------------

\* How many host calls named api the last handler call made.
Calls(api) == Cardinality({ k \in 1..Len(log) : log[k].api = api })

\* Squared distance, in (1/PX pixels)^2, from the pointer of the last event to
\* the projection of the tip of arrow i (counted from 1), or -1 when the tip
\* does not project.
TipDist2(i) ==
    LET t == location_3d_to_region_2d(Views[view], _arrows[i].tip)
        dx == event.mouse_region_x * PX - (IF t = << >> THEN 0 ELSE t[1])
        dy == event.mouse_region_y * PX - (IF t = << >> THEN 0 ELSE t[2])
    IN  IF t = << >> THEN -1 ELSE dx * dx + dy * dy

\* Arrow i projects at most 20 px from the pointer of the last event.
Within20(i) == TipDist2(i) >= 0 /\ TipDist2(i) <= 400 * PX * PX

\* The place of (axis, sign) in the order X+, X-, Y+, Y-, Z+, Z-.
Rank(a) ==
    (CASE a.axis = "X" -> 1 [] a.axis = "Y" -> 3 [] a.axis = "Z" -> 5)
    + (IF a.sign = 1 THEN 0 ELSE 1)

\* The last step was a modal call given a pointer move that is not passed
\* through.
MovedPointer == op = "modal" /\ event.type = "MOUSEMOVE" /\ ~event.alt

\* The last step refreshed the arrow set (update_arrows ran to its end).
Refreshed ==
    \/ (op = "invoke" /\ _timer # None)
    \/ (op = "modal" /\ event.type = "TIMER")

\* C1: whenever a session has left ACTIVE - committed, cancelled, or ended by
\* the mirror primitive raising on commit - its timer and its draw handler
\* have been released.
C1_ReleasedOnEveryExit ==
    (state \in {"COMMITTED", "CANCELLED"} \/ (state = "ERROR" /\ mirror # << >>))
        => (_timer \notin wmTimers /\ _handle \notin drawHandlers)

\* C2: an invocation whose entry precondition fails reports a warning,
\* returns CANCELLED, does not become ACTIVE, and holds neither a timer nor a
\* draw handler when it returns (none was acquired).
C2_RejectedInvokeAcquiresNothing ==
    (op = "invoke"
       /\ (\/ ctx.object = NoObject
           \/ ctx.object.type # "MESH"
           \/ ctx.mode # "EDIT_MESH"
           \/ ctx.area_type # "VIEW_3D"))
        => /\ result = "CANCELLED"
           /\ state # "ACTIVE"
           /\ Calls("report") >= 1
           /\ Calls("event_timer_add") = 0
           /\ Calls("draw_handler_add") = 0
           /\ _timer = None
           /\ _handle = None

\* C3: a cancel event (RIGHTMOUSE or ESC) handled in an ACTIVE session removes
\* the session's timer and draw handler exactly once each within that call
\* and leaves the session CANCELLED; from then on no tick of that timer and
\* no callback of that draw handler occurs, and the handler is not called
\* again: a removed timer or handler never exists again, and only existing
\* ones fire.
C3_CancelReleasesOnce ==
    [][ /\ (state = "ACTIVE" /\ op' = "modal" /\ event'.type \in {"RIGHTMOUSE", "ESC"})
            => /\ state' = "CANCELLED"
               /\ result' = "CANCELLED"
               /\ _timer \in wmTimers /\ _handle \in drawHandlers
               /\ wmTimers' = wmTimers \ {_timer}
               /\ drawHandlers' = drawHandlers \ {_handle}
               /\ Cardinality({ k \in 1..Len(log') :
                                  log'[k].api = "event_timer_remove" }) = 1
               /\ Cardinality({ k \in 1..Len(log') :
                                  log'[k].api = "draw_handler_remove" }) = 1
               /\ \E k \in 1..Len(log') : log'[k] = Call("event_timer_remove", _timer, "")
               /\ \E k \in 1..Len(log') : log'[k] = Call("draw_handler_remove", _handle, "")
        /\ state = "CANCELLED"
            => /\ ~(op' = "timer" /\ fired' = _timer)
               /\ ~(op' = "draw" /\ fired' = _handle)
               /\ op' # "modal"
        /\ \A i \in 1..session :
               /\ i \notin wmTimers => i \notin wmTimers'
               /\ i \notin drawHandlers => i \notin drawHandlers'
        /\ op' = "timer" => fired' \in wmTimers
        /\ op' = "draw" => fired' \in drawHandlers
      ]_vars

\* C3 witness: a cancel event has just been handled.
C3_Witness ==
    op = "modal" /\ event.type \in {"RIGHTMOUSE", "ESC"} /\ state = "CANCELLED"

\* C4: a LEFTMOUSE press handled while an arrow is hovered calls the mirror
\* primitive once, with the token made of the hovered arrow's sign and axis
\* and the threshold 0.0001, releases the timer and the draw handler, and
\* leaves the session COMMITTED.
C4_CommitMirrorsHovered ==
    (op = "modal" /\ event.type = "LEFTMOUSE" /\ event.value = "PRESS"
       /\ _hover # None)
        => /\ state = "COMMITTED"
           /\ _hover < Len(_arrows)
           /\ mirror = << [direction |->
                             (IF _arrows[_hover + 1].sign = 1 THEN "POSITIVE_"
                                                              ELSE "NEGATIVE_")
                             \o _arrows[_hover + 1].axis,
                           threshold |-> "0.0001"] >>
           /\ _timer \notin wmTimers
           /\ _handle \notin drawHandlers

\* C5: a LEFTMOUSE press handled in an ACTIVE session while nothing is hovered
\* changes nothing: no mirror call, the same arrows, hover, timer and draw
\* handler, and the session stays ACTIVE.
C5_ClickWithoutHoverIsNoOp ==
    [][ (state = "ACTIVE" /\ op' = "modal" /\ event'.type = "LEFTMOUSE"
           /\ event'.value = "PRESS" /\ _hover = None)
        => /\ state' = "ACTIVE"
           /\ result' = "RUNNING_MODAL"
           /\ mirror' = mirror
           /\ \A k \in 1..Len(log') : log'[k].api = "tag_redraw"
           /\ _arrows' = _arrows
           /\ _hover' = None
           /\ _timer' = _timer /\ _handle' = _handle
           /\ wmTimers' = wmTimers /\ drawHandlers' = drawHandlers
           /\ _timer \in wmTimers /\ _handle \in drawHandlers
      ]_vars

\* C5 witness: such a press has just been handled.
C5_Witness ==
    /\ op = "modal" /\ event.type = "LEFTMOUSE" /\ event.value = "PRESS"
    /\ _hover = None /\ state = "ACTIVE" /\ Len(_arrows) = 6

\* C6: after a pointer move that is not passed through, _hover is the least
\* index whose tip projects at most 20 px from the pointer (squared distance
\* <= 20^2), and None when there is no such index.
C6_HoverIsFirstWithin20px ==
    MovedPointer
        => \/ /\ _hover = None
              /\ \A i \in 1..Len(_arrows) : ~Within20(i)
           \/ /\ _hover \in 0..(Len(_arrows) - 1)
              /\ Within20(_hover + 1)
              /\ \A i \in 1.._hover : ~Within20(i)

\* C6 witness: the hovered tip is exactly 20 px from the pointer, and the
\* move replaced no earlier hover by chance: an earlier arrow is further away.
C6_Witness ==
    /\ MovedPointer /\ _hover # None /\ _hover > 0
    /\ TipDist2(_hover + 1) = 400 * PX * PX

\* C7: the arrows of a refresh are in the order X+, X-, Y+, Y-, Z+, Z-, and
\* after a pointer move every arrow within 20 px of the pointer comes no
\* earlier in that order than the hovered one.
C7_FixedOrderFirstWins ==
    /\ \A i, j \in 1..Len(_arrows) : i < j => Rank(_arrows[i]) < Rank(_arrows[j])
    /\ MovedPointer
        => \A i \in 1..Len(_arrows) :
              Within20(i) => /\ _hover # None
                             /\ Rank(_arrows[_hover + 1]) <= Rank(_arrows[i])

\* C7 witness: two tips are within 20 px of the pointer and the first of them
\* is hovered.
C7_Witness ==
    /\ MovedPointer /\ _hover # None
    /\ \E j \in 1..Len(_arrows) : j > _hover + 1 /\ Within20(j)

\* C8: a MIDDLEMOUSE event, a wheel event, or a pointer move with alt held,
\* handled in an ACTIVE session, returns PASS_THROUGH and changes nothing:
\* the same arrows, hover, timer and draw handler, no mirror call, and the
\* session stays ACTIVE.
C8_PassThroughChangesNothing ==
    [][ (state = "ACTIVE" /\ op' = "modal"
           /\ (\/ event'.type \in {"MIDDLEMOUSE", "WHEELUPMOUSE", "WHEELDOWNMOUSE",
                                   "WHEELINMOUSE", "WHEELOUTMOUSE"}
               \/ (event'.type = "MOUSEMOVE" /\ event'.alt)))
        => /\ result' = "PASS_THROUGH"
           /\ state' = "ACTIVE"
           /\ _arrows' = _arrows
           /\ _hover' = _hover
           /\ _timer' = _timer /\ _handle' = _handle
           /\ wmTimers' = wmTimers /\ drawHandlers' = drawHandlers
           /\ mirror' = mirror
           /\ \A k \in 1..Len(log') : log'[k].api = "tag_redraw"
      ]_vars

\* C8 witness: a pointer move with alt held was passed through although an
\* arrow tip lies under the pointer and nothing is hovered.
C8_Witness ==
    /\ op = "modal" /\ event.type = "MOUSEMOVE" /\ event.alt
    /\ result = "PASS_THROUGH" /\ _hover = None
    /\ \E i \in 1..Len(_arrows) : Within20(i)

\* C9 as stated: after every refresh arrows holds exactly 6 arrows, one for
\* each axis and sign.
C9_ExactlySix ==
    Refreshed
        => /\ Len(_arrows) = 6
           /\ { <<_arrows[i].axis, _arrows[i].sign>> : i \in 1..Len(_arrows) }
                = {"X", "Y", "Z"} \X {1, -1}

\* C9 amended: after every refresh arrows holds no arrow at all when the
\* object's origin does not project to the screen, and otherwise exactly 6
\* arrows, one for each axis and sign.
C9_SixOrNone ==
    Refreshed
        => IF location_3d_to_region_2d(Views[view], ctx.object.translation) = << >>
           THEN Len(_arrows) = 0
           ELSE /\ Len(_arrows) = 6
                /\ { <<_arrows[i].axis, _arrows[i].sign>> : i \in 1..Len(_arrows) }
                     = {"X", "Y", "Z"} \X {1, -1}

\* C9 witness: a timer tick of a running session refreshed the arrows and
\* left none, the origin being behind the viewpoint.
C9_Witness ==
    /\ op = "modal" /\ event.type = "TIMER" /\ state = "ACTIVE"
    /\ Len(_arrows) = 0

\* C10: the points of make_solid_arrow start at base; each of the four wing
\* points (the 4th, 6th, 8th and 10th point) has the tip next to it on both
\* sides it has a neighbour; and the tip is base plus the normalized
\* direction scaled by length.
C10_ArrowShape ==
    built.points # << >>
        => /\ Len(built.points) = 10
           /\ built.points[1] = built.base
           /\ built.tip = VAdd(built.base,
                               VScale(Normalized(built.direction), built.length))
           /\ \A k \in {4, 6, 8, 10} :
                 /\ built.points[k - 1] = built.tip
                 /\ k < 10 => built.points[k + 1] = built.tip

\* C10 witness: an arrow along world Y (the fallback side vector) whose four
\* wing points are four different points, none of them the tip.
C10_Witness ==
    /\ built.points # << >>
    /\ built.direction = <<0, SCALE, 0>>
    /\ built.length = 2 * SCALE
    /\ Cardinality({ built.points[k] : k \in {4, 6, 8, 10} } \cup {built.tip}) = 5

\* C11: every call of the modal handler of an ACTIVE session - on a timer
\* tick, a pass-through event, a pointer move, a cancel, a commit or any
\* other event - requests a redraw of the area, and that request is the first
\* call the handler makes: update_arrows, the mirror primitive and the
\* releases of finish all come after it.
C11_RedrawFirst ==
    op = "modal"
        => /\ Len(log) >= 1
           /\ log[1] = Call("tag_redraw", None, "")
           /\ \A k \in 2..Len(log) :
                 log[k].api = "tag_redraw" => k = Len(log) /\ result # "PASS_THROUGH"

\* C11 witness: a commit has just been handled: the redraw request came
\* before the mirror primitive and the releases.
C11_Witness ==
    /\ op = "modal" /\ result = "FINISHED"
    /\ \E k \in 2..Len(log) : log[k].api = "mesh.symmetrize"
    /\ \E k \in 2..Len(log) : log[k].api = "event_timer_remove"

\* Arrow a is what a refresh made now would compute: it starts at the
\* object's origin, which projects in the current viewport state; it is as
\* long as arrow_size pixels are at the origin's depth in that state (up to
\* rounding); and it points along the object's axis a.axis with sign a.sign,
\* exactly so unless that direction is within TiltDot of the current view
\* ray, and then tilted off it by a small angle.
OfThisTick(a) ==
    LET rv     == Views[view]
        origin == ctx.object.translation
        o2     == location_3d_to_region_2d(rv, origin)
        px_ws  == region_2d_to_location_3d(rv, <<o2[1] + arrow_size * PX, o2[2]>>, origin)
        vec    == MatVec(ctx.object.m3, AxisUnit(a.axis))
        axis   == Normalized(<<vec[1] * a.sign, vec[2] * a.sign, vec[3] * a.sign>>)
        got    == VSub(a.tip, origin)
        facing == Abs(Dot(axis, Normalized(ViewForward(rv))))
    IN  /\ o2 # << >>
        /\ a.points[1] = origin
        /\ a.points[3] = a.tip
        /\ Abs(VLength(got) - VLength(VSub(px_ws, origin))) <= 2
        /\ IF facing > TiltDot
           THEN /\ Dot(Normalized(got), axis) >= 990
                /\ facing < SCALE => Normalized(got) # axis
           ELSE Normalized(got) = axis

\* C12: after a TIMER event handled in an ACTIVE session, _arrows holds only
\* arrows of this refresh - at most one for each axis and sign, each computed
\* from the object's transform and the viewport state as they are now - the
\* session's timer and draw handler still exist, and the session is still
\* ACTIVE.
C12_TimerTickReplacesArrows ==
    (op = "modal" /\ event.type = "TIMER")
        => /\ state = "ACTIVE"
           /\ result = "RUNNING_MODAL"
           /\ _timer \in wmTimers
           /\ _handle \in drawHandlers
           /\ Len(_arrows) <= 6
           /\ \A i, j \in 1..Len(_arrows) :
                 i # j => <<_arrows[i].axis, _arrows[i].sign>>
                            # <<_arrows[j].axis, _arrows[j].sign>>
           /\ \A i \in 1..Len(_arrows) : OfThisTick(_arrows[i])

\* C12 witness: a timer tick refreshed six arrows while the viewport looks
\* nearly along one of the object's axes: that arrow is tilted off the axis.
C12_Witness ==
    /\ op = "modal" /\ event.type = "TIMER" /\ Len(_arrows) = 6
    /\ \E i \in 1..6 :
          LET vec == MatVec(ctx.object.m3, AxisUnit(_arrows[i].axis))
          IN  Normalized(VSub(_arrows[i].tip, ctx.object.translation))
                # Normalized(<<vec[1] * _arrows[i].sign, vec[2] * _arrows[i].sign,
                               vec[3] * _arrows[i].sign>>)

\* C13: in the state in which invoke has just made a session ACTIVE - no
\* event, and so no timer tick, has been handled in it yet - nothing is
\* hovered and _arrows holds what this invocation computed from the object's
\* transform and the viewport state as they are: one arrow for each axis and
\* sign when the origin projects, none otherwise.  This is so for every
\* session, whatever the sessions before it handled and however they ended.
C13_FreshStateOnEntry ==
    (op = "invoke" /\ state = "ACTIVE")
        => /\ _hover = None
           /\ mirror = << >>
           /\ \A i \in 1..Len(_arrows) : OfThisTick(_arrows[i])
           /\ { <<_arrows[i].axis, _arrows[i].sign>> : i \in 1..Len(_arrows) }
                = (IF location_3d_to_region_2d(Views[view], ctx.object.translation) = << >>
                   THEN {} ELSE {"X", "Y", "Z"} \X {1, -1})
           /\ Len(_arrows) \in {0, 6}

\* C13 witness: a second session has become ACTIVE after one that hovered an
\* arrow and ended with the mirror primitive raising (its draw handler still
\* exists), and it shows six arrows.
C13_Witness ==
    /\ op = "invoke" /\ state = "ACTIVE" /\ session = 2
    /\ 1 \in drawHandlers
    /\ Len(_arrows) = 6

\* C14: in every state of an ACTIVE session _hover is None or an index into
\* the current _arrows list (0 <= _hover < Len(_arrows)), and no LEFTMOUSE
\* press ends with _arrows[_hover] raising IndexError.
C14_HoverIndexValid ==
    /\ state = "ACTIVE" => (_hover = None \/ (0 <= _hover /\ _hover < Len(_arrows)))
    /\ ~(op = "modal" /\ event.type = "LEFTMOUSE" /\ event.value = "PRESS"
           /\ result = "EXCEPTION" /\ mirror = << >>)

\* C15: a session calls the mirror primitive at most once.  Once it has
\* called it, the event it handled last is a LEFTMOUSE press with an arrow
\* hovered, and that one handler call made the one call: no TIMER event,
\* pointer move, button release, pass-through or cancel event calls it, and
\* a session that was cancelled has never called it.
C15_MirrorAtMostOnce ==
    /\ Len(mirror) <= 1
    /\ Calls("mesh.symmetrize") <= 1
    /\ Calls("mesh.symmetrize") = 1 => mirror # << >>
    /\ mirror # << >>
         => /\ event.type = "LEFTMOUSE" /\ event.value = "PRESS"
            /\ _hover # None
            /\ Calls("mesh.symmetrize") = 1
            /\ state \in {"COMMITTED", "ERROR"}
    /\ state = "CANCELLED" => mirror = << >>
    /\ (op = "modal" /\ ~(event.type = "LEFTMOUSE" /\ event.value = "PRESS"))
         => (mirror = << >> /\ Calls("mesh.symmetrize") = 0)

\* C15 witness: the second session has called the mirror primitive once,
\* after its handler had been given timer ticks, moves and other events: the
\* first session's draw handler was never removed, so that session called it
\* too.
C15_Witness ==
    /\ session = 2 /\ Len(mirror) = 1 /\ state = "COMMITTED"
    /\ 1 \in drawHandlers

\* C16: after any sequence of register, change-hotkey, reset-hotkey and
\* unregister, addon_keymaps holds at most one keymap item.  While the add-on
\* is registered that item is in the keymap, bound to the operator, and its
\* key and its ctrl, shift and alt flags are those of the stored
\* preferences.  After unregister the list is empty and no item the add-on
\* created is left in the keymap.
C16_OneItemMatchingPrefs ==
    /\ Len(addon_keymaps) <= 1
    /\ registered
         => \A k \in 1..Len(addon_keymaps) :
               \E it \in keymap_items :
                  /\ it.id = addon_keymaps[k]
                  /\ it.idname = "mesh.smart_symmetrize_modal"
                  /\ it.type = prefs.hotkey_type
                  /\ it.value = "PRESS"
                  /\ it.ctrl = prefs.hotkey_ctrl
                  /\ it.shift = prefs.hotkey_shift
                  /\ it.alt = prefs.hotkey_alt
    /\ ~registered => (addon_keymaps = << >> /\ keymap_items = {})

\* C16 witness: the add-on has been registered again after its hotkey was
\* changed and it was unregistered: the one item carries the changed hotkey.
C16_Witness ==
    /\ op = "register" /\ registered
    /\ Len(addon_keymaps) = 1
    /\ prefs.hotkey_type = "S" /\ prefs.hotkey_ctrl /\ ~prefs.hotkey_alt

\* The hotkey of preferences p is the key and the modifier state of event e.
BoundTo(p, e) ==
    /\ p.hotkey_type = e.type
    /\ p.hotkey_ctrl = e.ctrl
    /\ p.hotkey_shift = e.shift
    /\ p.hotkey_alt = e.alt

\* C17: waiting_input is true exactly while a capture runs.  Of the events
\* given to a running capture, a press of ESC or RIGHTMOUSE ends it as
\* CANCELLED and leaves the keymap item and the stored hotkey as they were; a
\* press of one of the six modifier keys, and every event that is not a
\* press, leaves it running and changes nothing; every other press ends it
\* as FINISHED with the stored hotkey and the one registered keymap item
\* bound to that key and the event's ctrl, shift and alt state.
C17_CaptureOutcomes ==
    [][ /\ prefs.waiting_input = capture
        /\ prefs'.waiting_input = capture'
        /\ (capture /\ op' = "bh_sym.change_hotkey.modal")
             => IF event'.value = "PRESS" /\ event'.type \in {"ESC", "RIGHTMOUSE"}
                THEN /\ result' = "CANCELLED"
                     /\ ~capture'
                     /\ keymap_items' = keymap_items
                     /\ addon_keymaps' = addon_keymaps
                     /\ prefs' = [prefs EXCEPT !.waiting_input = FALSE]
                ELSE IF event'.value # "PRESS"
                        \/ event'.type \in {"LEFT_SHIFT", "RIGHT_SHIFT", "LEFT_CTRL",
                                            "RIGHT_CTRL", "LEFT_ALT", "RIGHT_ALT"}
                THEN /\ result' = "RUNNING_MODAL"
                     /\ capture'
                     /\ keymap_items' = keymap_items
                     /\ addon_keymaps' = addon_keymaps
                     /\ prefs' = prefs
                ELSE /\ result' = "FINISHED"
                     /\ ~capture'
                     /\ BoundTo(prefs', event')
                     /\ Len(addon_keymaps') = 1
                     /\ Cardinality(keymap_items') = 1
                     /\ \A it \in keymap_items' :
                           /\ it.id = addon_keymaps'[1]
                           /\ it.type = event'.type
                           /\ it.value = "PRESS"
                           /\ it.ctrl = event'.ctrl
                           /\ it.shift = event'.shift
                           /\ it.alt = event'.alt
      ]_vars

\* C17 witness: a capture has just ended as FINISHED on a press of S with
\* ctrl and shift held and alt not: that is now the stored hotkey and the
\* binding of the keymap item.
C17_Witness ==
    /\ op = "bh_sym.change_hotkey.modal" /\ result = "FINISHED"
    /\ ~capture /\ ~prefs.waiting_input
    /\ event.type = "S" /\ event.ctrl /\ event.shift /\ ~event.alt
    /\ BoundTo(prefs, event)
    /\ \E it \in keymap_items : it.type = "S" /\ it.ctrl /\ it.shift /\ ~it.alt

====
